---- MODULE Spec2Model ----
(***************************************************************************)
(* Model of pkg/cloudprovider/providers/openstack/metadata.go:             *)
(* the JSON decoders (parseMetadata, parseNetworkdata, parseFullMetadata), *)
(* the two metadata sources (getMetadataFromConfigDrive,                   *)
(* getMetadataFromMetadataService with its helper get) and the caching     *)
(* orchestrator getMetadata with its two package-level cache variables.    *)
(*                                                                         *)
(* Go pointers are modelled as sequences of length at most one: <<>> is    *)
(* nil and <<v>> points at v.  Go errors are strings, "nil" being no error.*)
(***************************************************************************)
EXTENDS Integers, Sequences, FiniteSets, TLC

\* ------------------------------------------------------------------------
\* Bounds of the model
\* ------------------------------------------------------------------------
NumProcs == 2      \* goroutines that call getMetadata
MaxLinks == 2      \* longest "links" array of an enumerated topology document
MaxNets == 2       \* longest "networks" array of an enumerated topology document

Procs == 1..NumProcs

\* ------------------------------------------------------------------------
\* Pointers and errors
\* ------------------------------------------------------------------------
Nil == <<>>
Ref(v) == <<v>>
IsNil(p) == p = <<>>
Deref(p) == p[1]

NoErr == "nil"
ErrBadMetadata == "Invalid OpenStack metadata, got empty uuid"
ErrSyntax == "json: syntax error"
ErrInvalid == "invalid argument"
ErrClosedBody == "http: read on closed response body"

\* ------------------------------------------------------------------------
\* JSON documents.  A document is either not well-formed JSON, or an object
\* whose string members are a set of <<key, value>> pairs and whose "links",
\* "networks" and "services" members are arrays of objects.
\* ------------------------------------------------------------------------
Member(obj, key) ==
    IF \E kv \in obj : kv[1] = key
    THEN (CHOOSE kv \in obj : kv[1] = key)[2]
    ELSE ""

JsonDoc(wf, fields, links, networks, services) ==
    [wellformed |-> wf, fields |-> fields, links |-> links,
     networks |-> networks, services |-> services]

MalformedDoc == JsonDoc(FALSE, {}, <<>>, <<>>, <<>>)
MdDoc(fields) == JsonDoc(TRUE, fields, <<>>, <<>>, <<>>)
NdDoc(links, networks) ==
    JsonDoc(TRUE, {}, links, networks,
            <<[type |-> "dns", address |-> "8.8.8.8"]>>)

\* ------------------------------------------------------------------------
\* io.Reader values handed to the decoders.
\*   "nil"     a nil interface value (get returns nil, err)
\*   "nilfile" an interface holding a nil *os.File (f2 = nil, line 179)
\*   "file"    an *os.File
\*   "body"    an http.Response.Body
\* ------------------------------------------------------------------------
Reader(kind, closed, doc) == [kind |-> kind, closed |-> closed, doc |-> doc]
NilReader == Reader("nil", FALSE, MalformedDoc)
NilFile == Reader("nilfile", FALSE, MalformedDoc)

\* What the first Read of a reader yields.  Reading a nil interface is a nil
\* dereference (panic); a nil or closed *os.File yields an error.  What a
\* closed response body yields is left to the Body implementation of the
\* transport: closedReadOk chooses between the content and an error.
Read(r, closedReadOk) ==
    CASE r.kind = "nil" -> [panic |-> TRUE, err |-> NoErr, doc |-> MalformedDoc]
      [] r.kind = "nilfile" -> [panic |-> FALSE, err |-> ErrInvalid, doc |-> MalformedDoc]
      [] r.kind = "file" /\ r.closed -> [panic |-> FALSE, err |-> ErrInvalid, doc |-> MalformedDoc]
      [] r.kind = "body" /\ r.closed /\ ~closedReadOk ->
            [panic |-> FALSE, err |-> ErrClosedBody, doc |-> MalformedDoc]
      [] OTHER -> [panic |-> FALSE, err |-> NoErr, doc |-> r.doc]

\* json.Decoder.Decode: a read error or a malformed document is an error.
Decode(r, closedReadOk) ==
    LET rd == Read(r, closedReadOk) IN
    IF rd.panic \/ rd.err # NoErr THEN rd
    ELSE IF ~rd.doc.wellformed
         THEN [panic |-> FALSE, err |-> ErrSyntax, doc |-> MalformedDoc]
         ELSE rd

\* ------------------------------------------------------------------------
\* Decoded structures
\* ------------------------------------------------------------------------
Metadata(doc) ==
    [Uuid |-> Member(doc.fields, "uuid"),
     Name |-> Member(doc.fields, "name"),
     AvailabilityZone |-> Member(doc.fields, "availability_zone")]

Link(j) == [MAC |-> j.ethernet_mac_address, Type |-> j.type, Id |-> j.id]

\* The Link field carries the tag json:"-": decoding leaves it nil.
Network(j) ==
    [NetworkId |-> j.network_id, IP |-> j.ip_address, LinkId |-> j.link,
     Link |-> Nil, Type |-> j.type]

Service(j) == [Type |-> j.type, Address |-> j.address]

Networkdata(doc) ==
    [Links |-> [i \in DOMAIN doc.links |-> Link(doc.links[i])],
     Networks |-> [i \in DOMAIN doc.networks |-> Network(doc.networks[i])],
     Services |-> [i \in DOMAIN doc.services |-> Service(doc.services[i])]]

ParseResult(md, nd, err, panic) ==
    [md |-> md, nd |-> nd, err |-> err, panic |-> panic]

\* parseMetadata without the test of lines 94-96: an empty uuid is accepted.
parseMetadata_NoUuidCheck(r, closedReadOk) ==
    LET d == Decode(r, closedReadOk) IN
    IF d.panic THEN ParseResult(Nil, Nil, NoErr, TRUE)
    ELSE IF d.err # NoErr THEN ParseResult(Nil, Nil, d.err, FALSE)
    ELSE ParseResult(Ref(Metadata(d.doc)), Nil, NoErr, FALSE)

\* ------------------------------------------------------------------------
\* parseMetadata (lines 87-99)
\* ------------------------------------------------------------------------
parseMetadata(r, closedReadOk) ==
    LET d == Decode(r, closedReadOk) IN
    IF d.panic THEN ParseResult(Nil, Nil, NoErr, TRUE)
    ELSE IF d.err # NoErr THEN ParseResult(Nil, Nil, d.err, FALSE)
    ELSE IF Metadata(d.doc).Uuid = "" THEN ParseResult(Nil, Nil, ErrBadMetadata, FALSE)
    ELSE ParseResult(Ref(Metadata(d.doc)), Nil, NoErr, FALSE)

\* ------------------------------------------------------------------------
\* parseNetworkdata (lines 101-117)
\* ------------------------------------------------------------------------
\* Index of the first link whose Id equals linkId, 0 when there is none: the
\* inner loop of lines 108-113 with its break.
FirstLink(links, linkId) ==
    IF \E i \in DOMAIN links : links[i].Id = linkId
    THEN CHOOSE i \in DOMAIN links :
            /\ links[i].Id = linkId
            /\ \A k \in DOMAIN links : links[k].Id = linkId => i <= k
    ELSE 0

\* Value of the loop variable `network` at the end of one iteration of the
\* outer loop (lines 107-114).
LoopNetwork(network, links) ==
    LET i == FirstLink(links, network.LinkId) IN
    IF i = 0 THEN network ELSE [network EXCEPT !.Link = Ref(links[i])]

\* networkdata.Networks after the loop `for _, network := range
\* networkdata.Networks` (lines 107-114): the loop variable `network` is a
\* copy of the slice element, so the assignment network.Link = &link changes
\* the copy only and the elements of the slice stay as decoded.
RangeNetworks(networkdata) ==
    LET network == [i \in DOMAIN networkdata.Networks |->
                        LoopNetwork(networkdata.Networks[i], networkdata.Links)]
    IN  networkdata.Networks

parseNetworkdata(r, closedReadOk) ==
    LET d == Decode(r, closedReadOk) IN
    IF d.panic THEN ParseResult(Nil, Nil, NoErr, TRUE)
    ELSE IF d.err # NoErr THEN ParseResult(Nil, Nil, d.err, FALSE)
    ELSE LET networkdata == Networkdata(d.doc) IN
         ParseResult(Nil,
                     Ref([networkdata EXCEPT !.Networks = RangeNetworks(networkdata)]),
                     NoErr, FALSE)

\* parseFullMetadata that propagates the error of parseNetworkdata.
parseFullMetadata_Strict(mdReader, ndReader, mdReadOk, ndReadOk) ==
    LET m == parseMetadata(mdReader, mdReadOk) IN
    IF m.panic \/ m.err # NoErr THEN m
    ELSE LET n == parseNetworkdata(ndReader, ndReadOk) IN
         IF n.panic \/ n.err # NoErr THEN n
         ELSE ParseResult(m.md, n.nd, NoErr, FALSE)

\* ------------------------------------------------------------------------
\* parseFullMetadata (lines 119-129): the error of parseNetworkdata is logged
\* and dropped.
\* ------------------------------------------------------------------------
parseFullMetadata(mdReader, ndReader, mdReadOk, ndReadOk) ==
    LET m == parseMetadata(mdReader, mdReadOk) IN
    IF m.panic \/ m.err # NoErr THEN m
    ELSE LET n == parseNetworkdata(ndReader, ndReadOk) IN
         IF n.panic THEN n
         ELSE ParseResult(m.md, n.nd, NoErr, FALSE)

\* ------------------------------------------------------------------------
\* Documents the environment can serve (config drive files, HTTP bodies)
\* ------------------------------------------------------------------------
MdFull(uuid) ==
    MdDoc({<<"uuid", uuid>>, <<"name", "vm1">>, <<"availability_zone", "az1">>})

JLink(id, mac) == [id |-> id, ethernet_mac_address |-> mac, type |-> "phy"]
JNet(link) ==
    [network_id |-> "net1", ip_address |-> "", link |-> link, type |-> "ipv4_dhcp"]

\* meta_data.json: not JSON, without uuid, or complete
MdSamples == {MalformedDoc, MdDoc({<<"name", "vm1">>}), MdFull("u1")}

\* network_data.json: not JSON, or one link and one network on it
NdSamples == {MalformedDoc, NdDoc(<<JLink("l1", "m1")>>, <<JNet("l1")>>)}

\* ------------------------------------------------------------------------
\* Constants of the source
\* ------------------------------------------------------------------------
configDriveLabel == "config-2"
DevAlias == <<"/dev/disk/by-label/" \o configDriveLabel>>
StatusOK == 200

\* Outputs of `blkid -l -t LABEL=config-2 -o device`, as sequences of
\* characters in which a device path is one token.
BlkidOutputs == {<<"/dev/sr0", "\n">>, <<"\n">>, <<>>}
IsSpace(c) == c \in {" ", "\n", "\t"}

\* strings.TrimSpace
RECURSIVE TrimLeft(_)
TrimLeft(s) == IF s # <<>> /\ IsSpace(Head(s)) THEN TrimLeft(Tail(s)) ELSE s
RECURSIVE TrimRight(_)
TrimRight(s) ==
    IF s # <<>> /\ IsSpace(s[Len(s)]) THEN TrimRight(SubSeq(s, 1, Len(s) - 1)) ELSE s
TrimSpace(s) == TrimRight(TrimLeft(s))

\* ------------------------------------------------------------------------
\* get (lines 206-219).  resp is the outcome of http.Get.  The deferred
\* resp.Body.Close() of line 211 runs before get returns, so the reader that
\* line 218 hands back is already closed.
\* ------------------------------------------------------------------------
HttpResp(transportErr, status, doc) ==
    [transportErr |-> transportErr, status |-> status, doc |-> doc]

get(resp) ==
    IF resp.transportErr THEN [r |-> NilReader, err |-> "http.Get: transport error"]
    ELSE IF resp.status # StatusOK
         THEN [r |-> NilReader, err |-> "Unexpected status code when reading metadata"]
         ELSE [r |-> Reader("body", TRUE, resp.doc), err |-> NoErr]

\* ------------------------------------------------------------------------
\* State
\* ------------------------------------------------------------------------
VARIABLES
    metadataCache,      \* var metadataCache *Metadata (line 222)
    networkdataCache,   \* var networkdataCache *Networkdata (line 223)
    pc,                 \* position of each goroutine
    md, nd, err,        \* locals md, nd, err of getMetadata (line 227)
    ret,                \* value a source is about to return
    dev,                \* local dev of getMetadataFromConfigDrive
    defers,             \* stack of deferred calls of getMetadataFromConfigDrive
    f, f2,              \* the two files of getMetadataFromConfigDrive
    mdBody, ndBody,     \* the two readers of getMetadataFromMetadataService
    tmpdir, mounted,    \* file system: mntdir exists, a drive is mounted on it
    result,             \* what the last finished getMetadata call returned
                        \* (kept until the next call runs line 226)
    attempts,           \* sources invoked by that call, with their errors
    oplog,              \* collaborator calls of the source attempt in progress
    retrieved,          \* (md, nd) pairs that successful source attempts returned
    stores,             \* number of executions of line 234
    pureIn, pureOut     \* input and output of a decoder applied on its own

gvars == <<metadataCache, networkdataCache, stores>>
lvars == <<md, nd, err>>
cdvars == <<dev, defers, f, f2, tmpdir, mounted>>
msvars == <<mdBody, ndBody>>
hvars == <<result, attempts, retrieved>>
pvars == <<pureIn, pureOut>>
vars == <<metadataCache, networkdataCache, pc, md, nd, err, ret, dev, defers,
          f, f2, mdBody, ndBody, tmpdir, mounted, result, attempts, oplog,
          retrieved, stores, pureIn, pureOut>>

NoResult == [returned |-> FALSE, md |-> Nil, nd |-> Nil, err |-> NoErr]
Returned(m, n, e) == [returned |-> TRUE, md |-> m, nd |-> n, err |-> e]
NoRet == ParseResult(Nil, Nil, NoErr, FALSE)
Op(name, ok) == [op |-> name, ok |-> ok]

NoPureIn == [mdReader |-> NilFile, ndReader |-> NilFile]
NoPureOut == [op |-> "none", res |-> NoRet]

Init ==
    /\ metadataCache = Nil
    /\ networkdataCache = Nil
    /\ pc = [p \in Procs |-> "idle"]
    /\ md = [p \in Procs |-> Nil]
    /\ nd = [p \in Procs |-> Nil]
    /\ err = [p \in Procs |-> NoErr]
    /\ ret = [p \in Procs |-> NoRet]
    /\ dev = [p \in Procs |-> <<>>]
    /\ defers = [p \in Procs |-> <<>>]
    /\ f = [p \in Procs |-> NilFile]
    /\ f2 = [p \in Procs |-> NilFile]
    /\ mdBody = [p \in Procs |-> NilReader]
    /\ ndBody = [p \in Procs |-> NilReader]
    /\ tmpdir = [p \in Procs |-> FALSE]
    /\ mounted = [p \in Procs |-> FALSE]
    /\ result = [p \in Procs |-> NoResult]
    /\ attempts = [p \in Procs |-> <<>>]
    /\ oplog = [p \in Procs |-> <<>>]
    /\ retrieved = {}
    /\ stores = 0
    /\ pureIn = NoPureIn
    /\ pureOut = NoPureOut

\* An unrecovered panic ends the process: no goroutine takes another step.
Alive == \A q \in Procs : pc[q] # "panic"

\* ------------------------------------------------------------------------
\* getMetadata (lines 225-239), one action per statement
\* ------------------------------------------------------------------------
Invoked(src) == [src |-> src, err |-> "pending"]
Finished(as, e) == [as EXCEPT ![Len(as)].err = e]

\* A goroutine calls getMetadata.
Call(p) ==
    /\ Alive
    /\ pc[p] = "idle"
    /\ pc' = [pc EXCEPT ![p] = "gm_check"]
    /\ UNCHANGED <<gvars, lvars, ret, cdvars, msvars, hvars, oplog, pvars>>

\* The first statement of a call: the locals are fresh and nothing has been
\* returned yet.
Fresh(p) ==
    /\ md' = [md EXCEPT ![p] = Nil]
    /\ nd' = [nd EXCEPT ![p] = Nil]
    /\ err' = [err EXCEPT ![p] = NoErr]
    /\ result' = [result EXCEPT ![p] = NoResult]

\* GmCheck without the test of line 226: every call queries the sources.
GmCheck_NoCache(p) ==
    /\ Alive
    /\ pc[p] = "gm_check"
    /\ pc' = [pc EXCEPT ![p] = "cd_stat"]
    /\ attempts' = [attempts EXCEPT ![p] = <<Invoked("configdrive")>>]
    /\ Fresh(p)
    /\ UNCHANGED <<gvars, ret, cdvars, msvars, oplog, retrieved, pvars>>

\* line 226: if metadataCache == nil; line 227 then calls the config drive
\* source.
GmCheck(p) ==
    /\ Alive
    /\ pc[p] = "gm_check"
    /\ IF IsNil(metadataCache)
       THEN /\ pc' = [pc EXCEPT ![p] = "cd_stat"]
            /\ attempts' = [attempts EXCEPT ![p] = <<Invoked("configdrive")>>]
       ELSE /\ pc' = [pc EXCEPT ![p] = "gm_ret_md"]
            /\ attempts' = [attempts EXCEPT ![p] = <<>>]
    /\ Fresh(p)
    /\ UNCHANGED <<gvars, ret, cdvars, msvars, oplog, retrieved, pvars>>

\* GmAfterConfigDrive without the test of line 228: the metadata service is
\* queried after the config drive whatever err.
GmAfterConfigDrive_Always(p) ==
    /\ Alive
    /\ pc[p] = "gm_cd_ret"
    /\ pc' = [pc EXCEPT ![p] = "ms_get_md"]
    /\ attempts' = [attempts EXCEPT ![p] = Append(@, Invoked("service"))]
    /\ UNCHANGED <<gvars, lvars, ret, cdvars, msvars, result, oplog, retrieved, pvars>>

\* line 228: if err != nil; line 229 then calls the metadata service source.
GmAfterConfigDrive(p) ==
    /\ Alive
    /\ pc[p] = "gm_cd_ret"
    /\ IF err[p] # NoErr
       THEN /\ pc' = [pc EXCEPT ![p] = "ms_get_md"]
            /\ attempts' = [attempts EXCEPT ![p] = Append(@, Invoked("service"))]
       ELSE /\ pc' = [pc EXCEPT ![p] = "gm_check_err"]
            /\ UNCHANGED attempts
    /\ UNCHANGED <<gvars, lvars, ret, cdvars, msvars, result, oplog, retrieved, pvars>>

\* GmCheckErr without the test of line 231: the result is stored whatever err.
GmCheckErr_Ignore(p) ==
    /\ Alive
    /\ pc[p] = "gm_check_err"
    /\ pc' = [pc EXCEPT ![p] = "gm_store_md"]
    /\ UNCHANGED <<gvars, lvars, ret, cdvars, msvars, hvars, oplog, pvars>>

\* lines 231-233: if err != nil { return nil, nil, err }
GmCheckErr(p) ==
    /\ Alive
    /\ pc[p] = "gm_check_err"
    /\ IF err[p] # NoErr
       THEN /\ pc' = [pc EXCEPT ![p] = "idle"]
            /\ result' = [result EXCEPT ![p] = Returned(Nil, Nil, err[p])]
       ELSE /\ pc' = [pc EXCEPT ![p] = "gm_store_md"]
            /\ UNCHANGED result
    /\ UNCHANGED <<gvars, lvars, ret, cdvars, msvars, attempts, oplog, retrieved, pvars>>

\* line 234: metadataCache = md
GmStoreMd(p) ==
    /\ Alive
    /\ pc[p] = "gm_store_md"
    /\ metadataCache' = md[p]
    /\ stores' = stores + 1
    /\ pc' = [pc EXCEPT ![p] = "gm_store_nd"]
    /\ UNCHANGED <<networkdataCache, lvars, ret, cdvars, msvars, hvars, oplog, pvars>>

\* GmStoreNd without its assignment: the topology is not cached.
GmStoreNd_Forget(p) ==
    /\ Alive
    /\ pc[p] = "gm_store_nd"
    /\ pc' = [pc EXCEPT ![p] = "gm_ret_md"]
    /\ UNCHANGED <<gvars, lvars, ret, cdvars, msvars, hvars, oplog, pvars>>

\* line 235: networkdataCache = nd
GmStoreNd(p) ==
    /\ Alive
    /\ pc[p] = "gm_store_nd"
    /\ networkdataCache' = nd[p]
    /\ pc' = [pc EXCEPT ![p] = "gm_ret_md"]
    /\ UNCHANGED <<metadataCache, stores, lvars, ret, cdvars, msvars, hvars, oplog, pvars>>

\* line 238, first operand of the return statement: read metadataCache
GmReadMd(p) ==
    /\ Alive
    /\ pc[p] = "gm_ret_md"
    /\ ret' = [ret EXCEPT ![p] = ParseResult(metadataCache, Nil, NoErr, FALSE)]
    /\ pc' = [pc EXCEPT ![p] = "gm_ret_nd"]
    /\ UNCHANGED <<gvars, lvars, cdvars, msvars, hvars, oplog, pvars>>

\* line 238, second operand: read networkdataCache, and return
GmReadNd(p) ==
    /\ Alive
    /\ pc[p] = "gm_ret_nd"
    /\ result' = [result EXCEPT ![p] = Returned(ret[p].md, networkdataCache, NoErr)]
    /\ ret' = [ret EXCEPT ![p] = NoRet]
    /\ pc' = [pc EXCEPT ![p] = "idle"]
    /\ UNCHANGED <<gvars, lvars, cdvars, msvars, attempts, oplog, retrieved, pvars>>

\* ------------------------------------------------------------------------
\* getMetadataFromConfigDrive (lines 131-185)
\* ------------------------------------------------------------------------
Logged(p, name, ok) == oplog' = [oplog EXCEPT ![p] = Append(@, Op(name, ok))]

\* A return statement of the function: the deferred calls run next.
CdExit(p, m, n, e) ==
    /\ ret' = [ret EXCEPT ![p] = ParseResult(m, n, e, FALSE)]
    /\ pc' = [pc EXCEPT ![p] = "cd_defer"]

\* lines 133-134: os.Stat of the by-label alias.  Only "does not exist" sends
\* the function to blkid; any other outcome keeps the alias as dev.
CdStat(p) ==
    /\ Alive
    /\ pc[p] = "cd_stat"
    /\ \E st \in {"exists", "notexist", "othererror"} :
        /\ Logged(p, "stat", st = "exists")
        /\ dev' = [dev EXCEPT ![p] = DevAlias]
        /\ pc' = [pc EXCEPT ![p] = IF st = "notexist" THEN "cd_blkid" ELSE "cd_tempdir"]
    /\ UNCHANGED <<gvars, lvars, ret, defers, f, f2, tmpdir, mounted, msvars, hvars, pvars>>

\* lines 135-144: blkid; its error ends the attempt, its output is trimmed.
CdBlkid(p) ==
    /\ Alive
    /\ pc[p] = "cd_blkid"
    /\ \/ /\ Logged(p, "blkid", FALSE)
          /\ CdExit(p, Nil, Nil, "blkid: exit status 2")
          /\ UNCHANGED dev
       \/ \E out \in BlkidOutputs :
          /\ Logged(p, "blkid", TRUE)
          /\ dev' = [dev EXCEPT ![p] = TrimSpace(out)]
          /\ pc' = [pc EXCEPT ![p] = "cd_tempdir"]
          /\ UNCHANGED ret
    /\ UNCHANGED <<gvars, lvars, defers, f, f2, tmpdir, mounted, msvars, hvars, pvars>>

\* CdTempDir without the defer of line 151.
CdTempDir_NoDefer(p) ==
    /\ Alive
    /\ pc[p] = "cd_tempdir"
    /\ \/ /\ Logged(p, "tempdir", FALSE)
          /\ CdExit(p, Nil, Nil, "TempDir: cannot create directory")
          /\ UNCHANGED tmpdir
       \/ /\ Logged(p, "tempdir", TRUE)
          /\ tmpdir' = [tmpdir EXCEPT ![p] = TRUE]
          /\ pc' = [pc EXCEPT ![p] = "cd_mount_iso9660"]
          /\ UNCHANGED ret
    /\ UNCHANGED <<gvars, lvars, dev, defers, f, f2, mounted, msvars, hvars, pvars>>

\* lines 147-151: ioutil.TempDir, defer os.Remove(mntdir)
CdTempDir(p) ==
    /\ Alive
    /\ pc[p] = "cd_tempdir"
    /\ \/ /\ Logged(p, "tempdir", FALSE)
          /\ CdExit(p, Nil, Nil, "TempDir: cannot create directory")
          /\ UNCHANGED <<tmpdir, defers>>
       \/ /\ Logged(p, "tempdir", TRUE)
          /\ tmpdir' = [tmpdir EXCEPT ![p] = TRUE]
          /\ defers' = [defers EXCEPT ![p] = <<"os.Remove">> \o @]
          /\ pc' = [pc EXCEPT ![p] = "cd_mount_iso9660"]
          /\ UNCHANGED ret
    /\ UNCHANGED <<gvars, lvars, dev, f, f2, mounted, msvars, hvars, pvars>>

\* CdMounted without the defer of line 164.
CdMounted_NoDefer(p) ==
    /\ mounted' = [mounted EXCEPT ![p] = TRUE]
    /\ pc' = [pc EXCEPT ![p] = "cd_open_md"]
    /\ UNCHANGED <<ret, defers>>

\* line 164: defer mounter.Unmount(mntdir), reached once a mount succeeded
CdMounted(p) ==
    /\ mounted' = [mounted EXCEPT ![p] = TRUE]
    /\ defers' = [defers EXCEPT ![p] = <<"mounter.Unmount">> \o @]
    /\ pc' = [pc EXCEPT ![p] = "cd_open_md"]
    /\ UNCHANGED ret

\* line 156: mount as iso9660
CdMountIso(p) ==
    /\ Alive
    /\ pc[p] = "cd_mount_iso9660"
    /\ \/ /\ Logged(p, "mount:iso9660", TRUE)
          /\ CdMounted(p)
       \/ /\ Logged(p, "mount:iso9660", FALSE)
          /\ pc' = [pc EXCEPT ![p] = "cd_mount_vfat"]
          /\ UNCHANGED <<mounted, defers, ret>>
    /\ UNCHANGED <<gvars, lvars, dev, f, f2, tmpdir, msvars, hvars, pvars>>

\* CdMountVfat that tries iso9660 once more when vfat fails.
CdMountVfat_Retry(p) ==
    /\ Alive
    /\ pc[p] = "cd_mount_vfat"
    /\ \/ /\ Logged(p, "mount:vfat", TRUE)
          /\ CdMounted(p)
       \/ /\ Logged(p, "mount:vfat", FALSE)
          /\ pc' = [pc EXCEPT ![p] = "cd_mount_iso9660"]
          /\ UNCHANGED <<mounted, defers, ret>>
    /\ UNCHANGED <<gvars, lvars, dev, f, f2, tmpdir, msvars, hvars, pvars>>

\* lines 157-163: mount as vfat after iso9660 failed; its error ends the
\* attempt.
CdMountVfat(p) ==
    /\ Alive
    /\ pc[p] = "cd_mount_vfat"
    /\ \/ /\ Logged(p, "mount:vfat", TRUE)
          /\ CdMounted(p)
       \/ /\ Logged(p, "mount:vfat", FALSE)
          /\ CdExit(p, Nil, Nil, "mount: vfat failed")
          /\ UNCHANGED <<mounted, defers>>
    /\ UNCHANGED <<gvars, lvars, dev, f, f2, tmpdir, msvars, hvars, pvars>>

\* CdOpenMd without the return of line 172: a failed open leaves f nil and
\* the function goes on to network_data.json.
CdOpenMd_Continue(p) ==
    /\ Alive
    /\ pc[p] = "cd_open_md"
    /\ \/ /\ Logged(p, "open:md", FALSE)
          /\ f' = [f EXCEPT ![p] = NilFile]
          /\ UNCHANGED defers
       \/ \E doc \in MdSamples :
          /\ Logged(p, "open:md", TRUE)
          /\ f' = [f EXCEPT ![p] = Reader("file", FALSE, doc)]
          /\ defers' = [defers EXCEPT ![p] = <<"f.Close">> \o @]
    /\ pc' = [pc EXCEPT ![p] = "cd_open_nd"]
    /\ UNCHANGED <<gvars, lvars, ret, dev, f2, tmpdir, mounted, msvars, hvars, pvars>>

\* lines 168-174: open meta_data.json, defer f.Close()
CdOpenMd(p) ==
    /\ Alive
    /\ pc[p] = "cd_open_md"
    /\ \/ /\ Logged(p, "open:md", FALSE)
          /\ CdExit(p, Nil, Nil, "open meta_data.json: no such file")
          /\ UNCHANGED <<f, defers>>
       \/ \E doc \in MdSamples :
          /\ Logged(p, "open:md", TRUE)
          /\ f' = [f EXCEPT ![p] = Reader("file", FALSE, doc)]
          /\ defers' = [defers EXCEPT ![p] = <<"f.Close">> \o @]
          /\ pc' = [pc EXCEPT ![p] = "cd_open_nd"]
          /\ UNCHANGED ret
    /\ UNCHANGED <<gvars, lvars, dev, f2, tmpdir, mounted, msvars, hvars, pvars>>

\* lines 175-182: open network_data.json; on failure f2 = nil, otherwise
\* defer f2.Close()
CdOpenNd(p) ==
    /\ Alive
    /\ pc[p] = "cd_open_nd"
    /\ \/ /\ Logged(p, "open:nd", FALSE)
          /\ f2' = [f2 EXCEPT ![p] = NilFile]
          /\ UNCHANGED defers
       \/ \E doc \in NdSamples :
          /\ Logged(p, "open:nd", TRUE)
          /\ f2' = [f2 EXCEPT ![p] = Reader("file", FALSE, doc)]
          /\ defers' = [defers EXCEPT ![p] = <<"f2.Close">> \o @]
    /\ pc' = [pc EXCEPT ![p] = "cd_parse"]
    /\ UNCHANGED <<gvars, lvars, ret, dev, f, tmpdir, mounted, msvars, hvars, pvars>>

\* line 184: return parseFullMetadata(f, f2)
CdParse(p) ==
    /\ Alive
    /\ pc[p] = "cd_parse"
    /\ LET r == parseFullMetadata(f[p], f2[p], TRUE, TRUE) IN
        /\ Logged(p, "parse", r.err = NoErr)
        /\ CdExit(p, r.md, r.nd, r.err)
    /\ UNCHANGED <<gvars, lvars, cdvars, msvars, hvars, pvars>>

\* The deferred calls (lines 181, 174, 164, 151) run last in, first out when
\* the function returns.  The value each returns is discarded.  Unmount may
\* fail (unmountOk), and a directory that is still mounted cannot be removed.
\* RunDefers is the state (files, mount, directory, log) after running the
\* stack ds from the state st.
RunDefer(d, st, unmountOk) ==
    CASE d = "f2.Close" ->
            [st EXCEPT !.f2.closed = TRUE, !.log = Append(@, Op("close:f2", TRUE))]
      [] d = "f.Close" ->
            [st EXCEPT !.f.closed = TRUE, !.log = Append(@, Op("close:f", TRUE))]
      [] d = "mounter.Unmount" ->
            [st EXCEPT !.mounted = ~unmountOk, !.log = Append(@, Op("unmount", unmountOk))]
      [] d = "os.Remove" ->
            [st EXCEPT !.tmpdir = st.mounted, !.log = Append(@, Op("remove", ~st.mounted))]

\* The deferred calls run in the order of their defer statements.
RECURSIVE RunDefers_FIFO(_, _, _)
RunDefers_FIFO(ds, st, unmountOk) ==
    IF ds = <<>> THEN st
    ELSE RunDefer(Head(ds), RunDefers_FIFO(Tail(ds), st, unmountOk), unmountOk)

RECURSIVE RunDefers(_, _, _)
RunDefers(ds, st, unmountOk) ==
    IF ds = <<>> THEN st
    ELSE RunDefers(Tail(ds), RunDefer(Head(ds), st, unmountOk), unmountOk)

CdDefer(p) ==
    /\ Alive
    /\ pc[p] = "cd_defer"
    /\ \E unmountOk \in BOOLEAN :
        LET st == RunDefers(defers[p],
                            [f |-> f[p], f2 |-> f2[p], mounted |-> mounted[p],
                             tmpdir |-> tmpdir[p], log |-> oplog[p]],
                            unmountOk) IN
        /\ f' = [f EXCEPT ![p] = st.f]
        /\ f2' = [f2 EXCEPT ![p] = st.f2]
        /\ mounted' = [mounted EXCEPT ![p] = st.mounted]
        /\ tmpdir' = [tmpdir EXCEPT ![p] = st.tmpdir]
        /\ oplog' = [oplog EXCEPT ![p] = st.log]
    /\ defers' = [defers EXCEPT ![p] = <<>>]
    /\ pc' = [pc EXCEPT ![p] = "cd_ret"]
    /\ UNCHANGED <<gvars, lvars, ret, dev, msvars, hvars, pvars>>

\* A source hands its result to line 227 or line 229 of getMetadata.
SourceReturn(p, next) ==
    /\ md' = [md EXCEPT ![p] = ret[p].md]
    /\ nd' = [nd EXCEPT ![p] = ret[p].nd]
    /\ err' = [err EXCEPT ![p] = ret[p].err]
    /\ attempts' = [attempts EXCEPT ![p] = Finished(@, ret[p].err)]
    /\ retrieved' = IF ret[p].err = NoErr
                    THEN retrieved \cup {<<ret[p].md, ret[p].nd>>}
                    ELSE retrieved
    /\ ret' = [ret EXCEPT ![p] = NoRet]
    /\ oplog' = [oplog EXCEPT ![p] = <<>>]
    /\ pc' = [pc EXCEPT ![p] = next]

\* getMetadataFromConfigDrive returns, all deferred calls done (line 227).
CdReturn(p) ==
    /\ Alive
    /\ pc[p] = "cd_ret"
    /\ SourceReturn(p, "gm_cd_ret")
    /\ dev' = [dev EXCEPT ![p] = <<>>]
    /\ f' = [f EXCEPT ![p] = NilFile]
    /\ f2' = [f2 EXCEPT ![p] = NilFile]
    /\ tmpdir' = [tmpdir EXCEPT ![p] = FALSE]
    /\ mounted' = [mounted EXCEPT ![p] = FALSE]
    /\ UNCHANGED <<gvars, defers, msvars, result, pvars>>

\* ------------------------------------------------------------------------
\* getMetadataFromMetadataService (lines 187-204)
\* ------------------------------------------------------------------------
\* Outcomes of http.Get: a transport error, an error status, or status 200
\* with one of the documents docs as body.
HttpResps(docs) ==
    {HttpResp(TRUE, 0, MalformedDoc), HttpResp(FALSE, 404, MalformedDoc)}
    \cup {HttpResp(FALSE, StatusOK, d) : d \in docs}

\* MsGetMd without the return of line 194: the error of the first get is
\* logged only, as the error of the second is.
MsGetMd_Continue(p) ==
    /\ Alive
    /\ pc[p] = "ms_get_md"
    /\ \E resp \in HttpResps(MdSamples) :
        LET g == get(resp) IN
        /\ Logged(p, "get:md", g.err = NoErr)
        /\ mdBody' = [mdBody EXCEPT ![p] = g.r]
    /\ pc' = [pc EXCEPT ![p] = "ms_get_nd"]
    /\ UNCHANGED <<gvars, lvars, ret, cdvars, ndBody, hvars, pvars>>

\* lines 189-195: GET meta_data.json; an error of get ends the attempt.
MsGetMd(p) ==
    /\ Alive
    /\ pc[p] = "ms_get_md"
    /\ \E resp \in HttpResps(MdSamples) :
        LET g == get(resp) IN
        /\ Logged(p, "get:md", g.err = NoErr)
        /\ IF g.err # NoErr
           THEN /\ ret' = [ret EXCEPT ![p] = ParseResult(Nil, Nil, g.err, FALSE)]
                /\ pc' = [pc EXCEPT ![p] = "ms_ret"]
                /\ UNCHANGED mdBody
           ELSE /\ mdBody' = [mdBody EXCEPT ![p] = g.r]
                /\ pc' = [pc EXCEPT ![p] = "ms_get_nd"]
                /\ UNCHANGED ret
    /\ UNCHANGED <<gvars, lvars, cdvars, ndBody, hvars, pvars>>

\* lines 196-201: GET network_data.json; an error of get is logged only, and
\* ndBody is then the nil reader get returned.
MsGetNd(p) ==
    /\ Alive
    /\ pc[p] = "ms_get_nd"
    /\ \E resp \in HttpResps(NdSamples) :
        LET g == get(resp) IN
        /\ Logged(p, "get:nd", g.err = NoErr)
        /\ ndBody' = [ndBody EXCEPT ![p] = g.r]
    /\ pc' = [pc EXCEPT ![p] = "ms_parse"]
    /\ UNCHANGED <<gvars, lvars, ret, cdvars, mdBody, hvars, pvars>>

\* line 203: return parseFullMetadata(mdBody, ndBody).  Decoding reads the
\* bodies that get has closed; a nil ndBody makes the decoder panic.
MsParse(p) ==
    /\ Alive
    /\ pc[p] = "ms_parse"
    /\ \E mdReadOk \in BOOLEAN, ndReadOk \in BOOLEAN :
        LET r == parseFullMetadata(mdBody[p], ndBody[p], mdReadOk, ndReadOk) IN
        /\ Logged(p, "parse", ~r.panic /\ r.err = NoErr)
        /\ ret' = [ret EXCEPT ![p] = r]
        /\ pc' = [pc EXCEPT ![p] = IF r.panic THEN "panic" ELSE "ms_ret"]
    /\ UNCHANGED <<gvars, lvars, cdvars, msvars, hvars, pvars>>

\* getMetadataFromMetadataService returns (line 229).
MsReturn(p) ==
    /\ Alive
    /\ pc[p] = "ms_ret"
    /\ SourceReturn(p, "gm_check_err")
    /\ mdBody' = [mdBody EXCEPT ![p] = NilReader]
    /\ ndBody' = [ndBody EXCEPT ![p] = NilReader]
    /\ UNCHANGED <<gvars, cdvars, result, pvars>>

\* ------------------------------------------------------------------------
\* The decoders applied on their own to an input reader
\* ------------------------------------------------------------------------
ApplyParseMetadata ==
    /\ pureOut.op = "none"
    /\ \E ok \in BOOLEAN :
        pureOut' = [op |-> "parseMetadata", res |-> parseMetadata(pureIn.mdReader, ok)]
    /\ UNCHANGED <<gvars, pc, lvars, ret, cdvars, msvars, hvars, oplog, pureIn>>

ApplyParseNetworkdata ==
    /\ pureOut.op = "none"
    /\ \E ok \in BOOLEAN :
        pureOut' = [op |-> "parseNetworkdata", res |-> parseNetworkdata(pureIn.ndReader, ok)]
    /\ UNCHANGED <<gvars, pc, lvars, ret, cdvars, msvars, hvars, oplog, pureIn>>

ApplyParseFullMetadata ==
    /\ pureOut.op = "none"
    /\ \E ok1 \in BOOLEAN, ok2 \in BOOLEAN :
        pureOut' = [op |-> "parseFullMetadata",
                    res |-> parseFullMetadata(pureIn.mdReader, pureIn.ndReader, ok1, ok2)]
    /\ UNCHANGED <<gvars, pc, lvars, ret, cdvars, msvars, hvars, oplog, pureIn>>

\* Enumerated documents and readers
SeqsUpTo(S, n) == UNION {[1..k -> S] : k \in 0..n}
Absent == "<absent>"
FieldSet(uuid, name, az) ==
    {kv \in {<<"uuid", uuid>>, <<"name", name>>, <<"availability_zone", az>>} :
        kv[2] # Absent}
MdDocs ==
    {MalformedDoc} \cup
    {MdDoc(FieldSet(u, n, a)) :
        u \in {Absent, "", "u1", "u2"}, n \in {Absent, "vm1"}, a \in {Absent, "az1"}}
JLinks == {JLink(id, mac) : id \in {"l1", "l2"}, mac \in {"m1", "m2"}}
JNets == {JNet(l) : l \in {"l1", "l2", "l3"}}
NdDocs ==
    {MalformedDoc} \cup
    {NdDoc(ls, ns) : ls \in SeqsUpTo(JLinks, MaxLinks), ns \in SeqsUpTo(JNets, MaxNets)}
ReadersOf(docs) ==
    {NilReader, NilFile} \cup
    {Reader(k, c, d) : k \in {"file", "body"}, c \in BOOLEAN, d \in docs}
PureInputs ==
    {[mdReader |-> m, ndReader |-> n] : m \in ReadersOf(MdDocs), n \in ReadersOf(NdSamples)}
    \cup
    {[mdReader |-> m, ndReader |-> n] : m \in ReadersOf(MdSamples), n \in ReadersOf(NdDocs)}

\* ------------------------------------------------------------------------
\* Specifications
\* ------------------------------------------------------------------------
Step(p) ==
    \/ GmCheck(p)
    \/ CdStat(p)
    \/ CdBlkid(p)
    \/ CdTempDir(p)
    \/ CdMountIso(p)
    \/ CdMountVfat(p)
    \/ CdOpenMd(p)
    \/ CdOpenNd(p)
    \/ CdParse(p)
    \/ CdDefer(p)
    \/ CdReturn(p)
    \/ GmAfterConfigDrive(p)
    \/ MsGetMd(p)
    \/ MsGetNd(p)
    \/ MsParse(p)
    \/ MsReturn(p)
    \/ GmCheckErr(p)
    \/ GmStoreMd(p)
    \/ GmStoreNd(p)
    \/ GmReadMd(p)
    \/ GmReadNd(p)

\* Goroutines call getMetadata concurrently.
Next == \E p \in Procs : Call(p) \/ Step(p)
Spec == Init /\ [][Next]_vars

\* One goroutine calls getMetadata again and again: sequential calls.
Main == CHOOSE p \in Procs : \A q \in Procs : p <= q
NextSeq == Call(Main) \/ Step(Main)
SpecSeq == Init /\ [][NextSeq]_vars

\* A decoder is applied to one enumerated input.
InitParse ==
    /\ metadataCache = Nil
    /\ networkdataCache = Nil
    /\ pc = [p \in Procs |-> "idle"]
    /\ md = [p \in Procs |-> Nil]
    /\ nd = [p \in Procs |-> Nil]
    /\ err = [p \in Procs |-> NoErr]
    /\ ret = [p \in Procs |-> NoRet]
    /\ dev = [p \in Procs |-> <<>>]
    /\ defers = [p \in Procs |-> <<>>]
    /\ f = [p \in Procs |-> NilFile]
    /\ f2 = [p \in Procs |-> NilFile]
    /\ mdBody = [p \in Procs |-> NilReader]
    /\ ndBody = [p \in Procs |-> NilReader]
    /\ tmpdir = [p \in Procs |-> FALSE]
    /\ mounted = [p \in Procs |-> FALSE]
    /\ result = [p \in Procs |-> NoResult]
    /\ attempts = [p \in Procs |-> <<>>]
    /\ oplog = [p \in Procs |-> <<>>]
    /\ retrieved = {}
    /\ stores = 0
    /\ pureIn \in PureInputs
    /\ pureOut = NoPureOut
NextParse == ApplyParseMetadata \/ ApplyParseNetworkdata \/ ApplyParseFullMetadata
SpecParse == InitParse /\ [][NextParse]_vars

\* ------------------------------------------------------------------------
\* Properties
\* ------------------------------------------------------------------------
SourcePcs ==
    {"cd_stat", "cd_blkid", "cd_tempdir", "cd_mount_iso9660", "cd_mount_vfat",
     "cd_open_md", "cd_open_nd", "cd_parse", "cd_defer", "cd_ret",
     "ms_get_md", "ms_get_nd", "ms_parse", "ms_ret"}

\* The last call of p has returned without error.
ReturnedOk(p) == result[p].returned /\ result[p].err = NoErr
ReturnedPair(p) == <<result[p].md, result[p].nd>>

\* The config drive attempt of p's call has returned an error.
ConfigDriveFailed(p) ==
    /\ Len(attempts[p]) >= 1
    /\ attempts[p][1].err \notin {NoErr, "pending"}

\* p's call fell back to the metadata service, which has returned error e.
ServiceReturned(p) == Len(attempts[p]) = 2 /\ attempts[p][2].err # "pending"

\* C1: with calls made one after the other, a source runs only while the
\* cache is empty and no source has succeeded yet, and every call that returns
\* without error returns the pair of the one successful source attempt there
\* has been, which is the pair the cache holds: after the first success the
\* sources are not invoked again and every call returns that same pair.
C1_CachedCallsIdempotent ==
    \A p \in Procs :
        /\ pc[p] \in SourcePcs => IsNil(metadataCache) /\ retrieved = {}
        /\ ReturnedOk(p) =>
            /\ retrieved = {ReturnedPair(p)}
            /\ <<metadataCache, networkdataCache>> = ReturnedPair(p)
            /\ stores = 1

\* A call that found the cache populated has returned: it invoked no source.
C1_Witness ==
    \E p \in Procs : ReturnedOk(p) /\ attempts[p] = <<>> /\ ~IsNil(result[p].nd)

\* C2: with calls made one after the other, once the config drive attempt of
\* a call has returned an error the metadata service is invoked in that call,
\* and when the service attempt succeeds the call returns the service's
\* (md, nd) and both cache variables hold it.
C2_FallbackResult ==
    \A p \in Procs :
        /\ (ConfigDriveFailed(p) /\ pc[p] # "gm_cd_ret") =>
            /\ Len(attempts[p]) = 2
            /\ attempts[p][2].src = "service"
        /\ (result[p].returned /\ ServiceReturned(p) /\ attempts[p][2].err = NoErr) =>
            /\ result[p] = Returned(md[p], nd[p], NoErr)
            /\ metadataCache = md[p]
            /\ networkdataCache = nd[p]
            /\ <<md[p], nd[p]>> \in retrieved

\* A call has returned the result of the metadata service, topology included.
C2_Witness ==
    \E p \in Procs :
        /\ result[p].returned
        /\ ServiceReturned(p)
        /\ attempts[p][2].err = NoErr
        /\ ~IsNil(result[p].nd)

\* Both sources of p's last call have failed.
BothFailed(p) ==
    /\ result[p].returned
    /\ ConfigDriveFailed(p)
    /\ ServiceReturned(p)
    /\ attempts[p][2].err # NoErr

\* C3: with calls made one after the other, a call in which both sources fail
\* returns nil, nil and one error (the service's), leaves both cache variables
\* nil and unwritten, and the next call starts again with the config drive
\* source (and falls back to the service when that fails).
C3_DoubleFailure ==
    /\ [](\A p \in Procs :
            /\ BothFailed(p) =>
                /\ result[p] = Returned(Nil, Nil, attempts[p][2].err)
                /\ IsNil(metadataCache)
                /\ IsNil(networkdataCache)
                /\ stores = 0
            /\ (pc[p] = "gm_check_err" /\ ConfigDriveFailed(p)) => ServiceReturned(p))
    /\ [][\A p \in Procs :
            (BothFailed(p) /\ pc[p] = "gm_check" /\ pc'[p] # "gm_check") =>
                /\ pc'[p] = "cd_stat"
                /\ attempts'[p] = <<Invoked("configdrive")>>]_vars

\* The call after a double failure is about to run line 226.
C3_Witness == \E p \in Procs : BothFailed(p) /\ pc[p] = "gm_check"

\* C4: at most one goroutine is inside a retrieval sequence (config drive
\* attempt or metadata service attempt) at any time.
C4_MutualExclusion ==
    Cardinality({p \in Procs : pc[p] \in SourcePcs}) <= 1

\* C5: every pair a call returns is the (md, nd) pair of one successful
\* source attempt: no caller observes one cache field of a retrieval without
\* the other.
C5_NoPartialCache ==
    \A p \in Procs : ReturnedOk(p) => ReturnedPair(p) \in retrieved

\* C6: the cache is written by one call only: line 234 runs at most once in
\* an execution.
C6_PopulatedOnce == stores <= 1

\* Collaborator calls in the log of a config drive attempt
MountSucceeded(log) ==
    \E i \in DOMAIN log : log[i].op \in {"mount:iso9660", "mount:vfat"} /\ log[i].ok
Calls(log, name) == {i \in DOMAIN log : log[i].op = name}

\* C7: when getMetadataFromConfigDrive is about to hand back its result after
\* a successful mount, no deferred call is pending, Unmount has been called
\* once on the mount point and os.Remove once on the directory, in that order
\* and after the mount; when Unmount reported success the directory is
\* unmounted and removed.  This holds for every result: success, open failure
\* of meta_data.json, decode failure.
C7_CleanupOnEveryExit ==
    \A p \in Procs :
        (pc[p] = "cd_ret" /\ MountSucceeded(oplog[p])) =>
            /\ defers[p] = <<>>
            /\ Cardinality(Calls(oplog[p], "unmount")) = 1
            /\ Cardinality(Calls(oplog[p], "remove")) = 1
            /\ \A m \in DOMAIN oplog[p], u \in Calls(oplog[p], "unmount"),
                  r \in Calls(oplog[p], "remove") :
                  oplog[p][m].op \in {"mount:iso9660", "mount:vfat"} => m < u /\ u < r
            /\ (\A u \in Calls(oplog[p], "unmount") : oplog[p][u].ok) =>
                  ~mounted[p] /\ ~tmpdir[p]

\* The function returns a decode failure after a mount, cleanup done.
C7_Witness ==
    \E p \in Procs :
        /\ pc[p] = "cd_ret"
        /\ MountSucceeded(oplog[p])
        /\ ret[p].err = ErrSyntax
        /\ ~mounted[p] /\ ~tmpdir[p]

ValidMd(doc) == doc.wellformed /\ Member(doc.fields, "uuid") # ""

\* C8: when the first GET returned 200 with a valid document and the second
\* GET failed, getMetadataFromMetadataService returns the decoded metadata, a
\* nil topology and no error.
C8_TopologyGetFailureTolerated ==
    \A p \in Procs :
        (/\ pc[p] \in {"ms_ret", "panic"}
         /\ mdBody[p].kind = "body"
         /\ ValidMd(mdBody[p].doc)
         /\ ndBody[p] = NilReader) =>
            /\ pc[p] = "ms_ret"
            /\ ret[p] = ParseResult(Ref(Metadata(mdBody[p].doc)), Nil, NoErr, FALSE)

\* C9: when meta_data.json on the mounted drive is a valid document and
\* network_data.json could not be opened or does not decode,
\* getMetadataFromConfigDrive returns the decoded metadata, a nil topology
\* and a nil error.
C9_TopologyBestEffort ==
    \A p \in Procs :
        (/\ pc[p] \in {"cd_defer", "cd_ret"}
         /\ f[p].kind = "file"
         /\ ValidMd(f[p].doc)
         /\ (f2[p] = NilFile \/ ~f2[p].doc.wellformed)) =>
            ret[p] = ParseResult(Ref(Metadata(f[p].doc)), Nil, NoErr, FALSE)

\* network_data.json could not be opened and the attempt succeeds.
C9_Witness ==
    \E p \in Procs :
        /\ pc[p] = "cd_ret"
        /\ f[p].kind = "file"
        /\ ValidMd(f[p].doc)
        /\ f2[p] = NilFile
        /\ ret[p].err = NoErr
        /\ ~IsNil(ret[p].md)

\* C10: in the Networkdata parseNetworkdata returns, a network whose LinkId
\* is the Id of some link points at the first such link, and any other
\* network has a nil Link.
C10_LinksJoined ==
    (pureOut.op = "parseNetworkdata" /\ ~IsNil(pureOut.res.nd)) =>
        LET networkdata == Deref(pureOut.res.nd) IN
        \A i \in DOMAIN networkdata.Networks :
            LET k == FirstLink(networkdata.Links, networkdata.Networks[i].LinkId) IN
            networkdata.Networks[i].Link =
                IF k = 0 THEN Nil ELSE Ref(networkdata.Links[k])


\* The reader r is open and holds a JSON object without uuid or with an
\* empty one.
OpenReader(r) == r.kind \in {"file", "body"} /\ ~r.closed
EmptyUuid(r) ==
    OpenReader(r) /\ r.doc.wellformed /\ Member(r.doc.fields, "uuid") = ""

\* C11: applied to a document whose uuid is empty or missing, parseMetadata
\* returns nil and ErrBadMetadata whatever name and availability_zone are,
\* and parseFullMetadata, the result of either source, returns nil, nil and
\* ErrBadMetadata whatever the topology reader is.
C11_EmptyUuidRejected ==
    (pureOut.op \in {"parseMetadata", "parseFullMetadata"} /\ EmptyUuid(pureIn.mdReader)) =>
        pureOut.res = ParseResult(Nil, Nil, ErrBadMetadata, FALSE)

\* parseFullMetadata has rejected a document that has a name and a zone but
\* an empty uuid, next to a topology document that decodes.
C11_Witness ==
    /\ pureOut.op = "parseFullMetadata"
    /\ EmptyUuid(pureIn.mdReader)
    /\ <<"uuid", "">> \in pureIn.mdReader.doc.fields
    /\ Member(pureIn.mdReader.doc.fields, "name") # ""
    /\ Member(pureIn.mdReader.doc.fields, "availability_zone") # ""
    /\ OpenReader(pureIn.ndReader) /\ pureIn.ndReader.doc.wellformed
    /\ pureOut.res.err = ErrBadMetadata

\* The blkid step of p's config drive attempt yielded no device path: it
\* failed, or its trimmed output is empty.
BlkidNoPath(p) ==
    \E i \in DOMAIN oplog[p] :
        /\ oplog[p][i].op = "blkid"
        /\ (~oplog[p][i].ok \/ dev[p] = <<>>)

\* C12: when the alias does not exist and blkid yields no device path (an
\* error, or zero paths), the attempt creates no temporary directory, mounts
\* nothing and returns an error.
C12_DeviceNotFound ==
    \A p \in Procs :
        BlkidNoPath(p) =>
            /\ Calls(oplog[p], "tempdir") = {}
            /\ Calls(oplog[p], "mount:iso9660") = {}
            /\ Calls(oplog[p], "mount:vfat") = {}
            /\ pc[p] = "cd_ret" => ret[p].err # NoErr

\* C13: the body get returns for a 200 response is open when it is handed to
\* the decoder, and when both GETs return 200 and the first body is a valid
\* document the service attempt returns the metadata decoded from it.
C13_BodyOpenWhenDecoded ==
    \A p \in Procs :
        /\ (pc[p] \in {"ms_get_nd", "ms_parse"} /\ mdBody[p].kind = "body") =>
            ~mdBody[p].closed
        /\ (/\ pc[p] = "ms_ret"
            /\ mdBody[p].kind = "body" /\ ValidMd(mdBody[p].doc)
            /\ ndBody[p].kind = "body") =>
            /\ ret[p].err = NoErr
            /\ ret[p].md = Ref(Metadata(mdBody[p].doc))


ConfigDrivePcs ==
    {"cd_stat", "cd_blkid", "cd_tempdir", "cd_mount_iso9660", "cd_mount_vfat",
     "cd_open_md", "cd_open_nd", "cd_parse", "cd_defer", "cd_ret"}
ServicePcs == {"ms_get_md", "ms_get_nd", "ms_parse", "ms_ret"}

\* C14: the sources a call has invoked are the config drive, once, possibly
\* followed by the metadata service, once; the service is invoked only after
\* the config drive attempt of that call returned an error; a call that found
\* the cache empty invokes the config drive before anything else.
C14_SourceOrder ==
    \A p \in Procs :
        /\ Len(attempts[p]) <= 2
        /\ Len(attempts[p]) >= 1 => attempts[p][1].src = "configdrive"
        /\ Len(attempts[p]) = 2 =>
            /\ attempts[p][2].src = "service"
            /\ attempts[p][1].err \notin {NoErr, "pending"}
        /\ pc[p] \in ConfigDrivePcs => attempts[p] = <<Invoked("configdrive")>>
        /\ pc[p] \in ServicePcs =>
            Len(attempts[p]) = 2 /\ attempts[p][2] = Invoked("service")
        /\ pc[p] \in {"gm_cd_ret", "gm_check_err", "gm_store_md", "gm_store_nd"} =>
            Len(attempts[p]) >= 1

\* The config drive attempt succeeded and the call returned: one attempt.
C14_Witness ==
    \E p \in Procs :
        /\ ReturnedOk(p)
        /\ Len(attempts[p]) = 1
        /\ attempts[p][1] = [src |-> "configdrive", err |-> NoErr]

\* Positions of the mount calls in the log of a config drive attempt
Mounts(log) == Calls(log, "mount:iso9660") \cup Calls(log, "mount:vfat")
BothMountsFailed(log) ==
    /\ \E i \in Calls(log, "mount:iso9660") : ~log[i].ok
    /\ \E i \in Calls(log, "mount:vfat") : ~log[i].ok

\* C15: in a config drive attempt iso9660 is mounted first and at most once,
\* vfat at most once and only right after iso9660 failed; when both fail the
\* function returns the error of the vfat mount and opens no file.
C15_MountOrder ==
    \A p \in Procs :
        /\ Cardinality(Calls(oplog[p], "mount:iso9660")) <= 1
        /\ Cardinality(Calls(oplog[p], "mount:vfat")) <= 1
        /\ \A v \in Calls(oplog[p], "mount:vfat") :
            /\ v - 1 \in Calls(oplog[p], "mount:iso9660")
            /\ ~oplog[p][v - 1].ok
        /\ (pc[p] \in {"cd_mount_vfat", "cd_open_md"}) =>
            Calls(oplog[p], "mount:iso9660") # {}
        /\ BothMountsFailed(oplog[p]) =>
            /\ pc[p] \in {"cd_defer", "cd_ret"}
            /\ ret[p] = ParseResult(Nil, Nil, "mount: vfat failed", FALSE)
            /\ Calls(oplog[p], "open:md") = {}
            /\ Calls(oplog[p], "open:nd") = {}

\* Both mounts have failed and the function is about to return.
C15_Witness ==
    \E p \in Procs : pc[p] = "cd_ret" /\ BothMountsFailed(oplog[p])

\* The first GET of p's service attempt failed.
FirstGetFailed(p) ==
    \E i \in Calls(oplog[p], "get:md") : ~oplog[p][i].ok

\* C16: when the first GET fails (transport error or a status other than
\* 200) the service attempt returns nil, nil and an error, and the second GET
\* is not issued.
C16_FirstGetFailure ==
    \A p \in Procs :
        FirstGetFailed(p) =>
            /\ pc[p] = "ms_ret"
            /\ ret[p].err # NoErr
            /\ IsNil(ret[p].md) /\ IsNil(ret[p].nd)
            /\ Calls(oplog[p], "get:nd") = {}
            /\ Calls(oplog[p], "parse") = {}

\* The first GET answered with an error status.
C16_Witness ==
    \E p \in Procs :
        /\ FirstGetFailed(p)
        /\ ret[p].err = "Unexpected status code when reading metadata"

OpenMdError == "open meta_data.json: no such file"

\* C17: when meta_data.json cannot be opened on the mounted drive, the config
\* drive attempt returns nil, nil and the open error without opening
\* network_data.json or decoding anything, and getMetadata then invokes the
\* metadata service.
C17_InstanceFileMissing ==
    \A p \in Procs :
        /\ (\E i \in Calls(oplog[p], "open:md") : ~oplog[p][i].ok) =>
            /\ pc[p] \in {"cd_defer", "cd_ret"}
            /\ ret[p] = ParseResult(Nil, Nil, OpenMdError, FALSE)
            /\ Calls(oplog[p], "open:nd") = {}
            /\ Calls(oplog[p], "parse") = {}
        /\ (/\ Len(attempts[p]) >= 1
            /\ attempts[p][1].err = OpenMdError
            /\ pc[p] # "gm_cd_ret") =>
            /\ Len(attempts[p]) = 2
            /\ attempts[p][2].src = "service"

\* After a failed open of meta_data.json the call is in the service attempt.
C17_Witness ==
    \E p \in Procs :
        /\ Len(attempts[p]) = 2
        /\ attempts[p][1].err = OpenMdError
        /\ pc[p] = "ms_get_nd"


\* In the log, every successful open of the file `file` is followed by one
\* close of `handle`, and that close comes before position u.
ClosedBefore(log, file, handle, u) ==
    \A o \in Calls(log, "open:" \o file) :
        log[o].ok =>
            /\ Cardinality(Calls(log, "close:" \o handle)) = 1
            /\ \A c \in Calls(log, "close:" \o handle) : o < c /\ c < u

\* C18: when getMetadataFromConfigDrive is about to hand back its result
\* after a successful mount, every file it opened under the mount point was
\* closed before Unmount was called, nothing was read after the closes, and
\* Unmount was called before os.Remove.
C18_ReleaseOrder ==
    \A p \in Procs :
        (pc[p] = "cd_ret" /\ MountSucceeded(oplog[p])) =>
            /\ Calls(oplog[p], "unmount") # {}
            /\ \A u \in Calls(oplog[p], "unmount") :
                /\ ClosedBefore(oplog[p], "md", "f", u)
                /\ ClosedBefore(oplog[p], "nd", "f2", u)
                /\ \A r \in Calls(oplog[p], "remove") : u < r
                /\ \A x \in Calls(oplog[p], "parse") : x < u
            /\ \A x \in Calls(oplog[p], "parse"),
                  c \in Calls(oplog[p], "close:f") \cup Calls(oplog[p], "close:f2") : x < c
            /\ Calls(oplog[p], "remove") # {}

\* Both files were opened and the function is about to return.
C18_Witness ==
    \E p \in Procs :
        /\ pc[p] = "cd_ret"
        /\ Calls(oplog[p], "close:f") # {}
        /\ Calls(oplog[p], "close:f2") # {}
        /\ Calls(oplog[p], "remove") # {}

\* C19: in a config drive attempt Unmount is never called unless a mount
\* succeeded; when the function is about to hand back its result Unmount has
\* been called once if a mount succeeded and not at all otherwise, and when
\* the temporary directory was created and both mounts failed os.Remove has
\* been called once and has removed it.
C19_UnmountIffMounted ==
    \A p \in Procs :
        /\ Calls(oplog[p], "unmount") # {} => MountSucceeded(oplog[p])
        /\ pc[p] = "cd_ret" =>
            /\ Cardinality(Calls(oplog[p], "unmount")) =
                    IF MountSucceeded(oplog[p]) THEN 1 ELSE 0
            /\ ((\E t \in Calls(oplog[p], "tempdir") : oplog[p][t].ok)
                    /\ ~MountSucceeded(oplog[p])) =>
                /\ Cardinality(Calls(oplog[p], "remove")) = 1
                /\ \A r \in Calls(oplog[p], "remove") : oplog[p][r].ok
                /\ ~tmpdir[p]
                /\ ~mounted[p]

\* Both mounts failed, the directory is removed, nothing was unmounted.
C19_Witness ==
    \E p \in Procs :
        /\ pc[p] = "cd_ret"
        /\ BothMountsFailed(oplog[p])
        /\ Calls(oplog[p], "remove") # {}
        /\ Calls(oplog[p], "unmount") = {}

\* C20: in every state, under concurrent callers too, a set metadataCache
\* points at Metadata with a non-empty Uuid, networkdataCache is set only if
\* metadataCache is, and every call that returned without error returned
\* Metadata with a non-empty Uuid.
C20_CacheValid ==
    /\ ~IsNil(metadataCache) => Deref(metadataCache).Uuid # ""
    /\ ~IsNil(networkdataCache) => ~IsNil(metadataCache)
    /\ \A p \in Procs :
        ReturnedOk(p) => ~IsNil(result[p].md) /\ Deref(result[p].md).Uuid # ""

\* Both cache variables are set and a call has returned them.
C20_Witness ==
    /\ ~IsNil(metadataCache)
    /\ ~IsNil(networkdataCache)
    /\ \E p \in Procs : ReturnedOk(p) /\ ~IsNil(result[p].nd)

====
